---- MODULE Spec2Model ----
(***************************************************************************)
(* Typed index counters and region arithmetic of bitvec (src/index.rs).    *)
(*                                                                         *)
(* The module is a library of pure functions over small value types.  The  *)
(* state machine records one call at a time: the operation, the register   *)
(* type it is instantiated at, its arguments and what it returned.  Every  *)
(* action is one function of index.rs applied to inputs drawn from the     *)
(* sets below; a fold over an iterator takes one step for each item it     *)
(* pulls, with the iterator and the accumulator in iter and accum; a caller *)
(* that walks an iterator from either end keeps what it pulled in pulled.   *)
(*                                                                         *)
(* Representation.                                                         *)
(*   u8            a natural number in 0..255                              *)
(*   usize, isize  the 64-bit pattern as NLimbs limbs of LimbBits bits,    *)
(*                 least significant limb first (TLC's integers are 32     *)
(*                 bits wide, a machine word is not)                       *)
(*   R (register)  the set of the positions of its set bits                *)
(***************************************************************************)
EXTENDS Integers, Sequences, FiniteSets, TLC

VARIABLES op, reg, args, ret, iter, accum, pulled

vars == <<op, reg, args, ret, iter, accum, pulled>>

(***************************************************************************)
(* Register kinds (crate::mem::BitMemory / BitRegister).                   *)
(***************************************************************************)
Regs == {"u8", "u16", "u32", "u64"}

BITS(R) == CASE R = "u8" -> 8 [] R = "u16" -> 16 [] R = "u32" -> 32 [] R = "u64" -> 64

INDX(R) == CASE R = "u8" -> 3 [] R = "u16" -> 4 [] R = "u32" -> 5 [] R = "u64" -> 6

MASK(R) == BITS(R) - 1

(***************************************************************************)
(* u8 arithmetic.                                                          *)
(***************************************************************************)
U8 == 0 .. 255

RECURSIVE u8_bitand(_, _)
u8_bitand(a, b) ==
    IF a = 0 \/ b = 0 THEN 0
    ELSE (a % 2) * (b % 2) + 2 * u8_bitand(a \div 2, b \div 2)

RECURSIVE u8_bitor(_, _)
u8_bitor(a, b) ==
    IF a = 0 THEN b
    ELSE IF b = 0 THEN a
    ELSE (IF a % 2 = 1 \/ b % 2 = 1 THEN 1 ELSE 0) + 2 * u8_bitor(a \div 2, b \div 2)

\* `a + b` and `a - b` on u8 leave the range of u8 (a build with overflow
\* checks panics there).
u8_add_overflows(a, b) == a + b > 255

u8_sub_overflows(a, b) == a < b

u8_wrapping_sub(a, b) == (a - b + 256) % 256

u8_shl(a, s) == (a * 2 ^ s) % 256

(***************************************************************************)
(* Machine words.  A word is its bit pattern; isize and usize differ only  *)
(* in how the top bit is read.                                             *)
(***************************************************************************)
WordBits == 64

LimbBits == WordBits \div 4

NLimbs == WordBits \div LimbBits

LimbBase == 2 ^ LimbBits

\* A word given limb by limb, as the sequence of its limbs.
Limbs(x) == SubSeq(x, 1, Len(x))

\* The word (of n limbs) whose value is the natural number v < LimbBase.
WordOfNat(v, n) == Limbs([k \in 1 .. n |-> IF k = 1 THEN v ELSE 0])

\* `value as isize` / `value as usize` for a u8.
word_from_u8(v) == WordOfNat(v, NLimbs)

\* `x as u8`: the low eight bits.
word_as_u8(x) == x[1] % 256

IsNeg(x) == x[Len(x)] >= LimbBase \div 2

RECURSIVE CarryIn(_, _, _, _)
CarryIn(a, b, cin, k) ==
    IF k = 1 THEN cin
    ELSE (a[k - 1] + b[k - 1] + CarryIn(a, b, cin, k - 1)) \div LimbBase

AddWithCarry(a, b, cin) ==
    Limbs([k \in 1 .. Len(a) |-> (a[k] + b[k] + CarryIn(a, b, cin, k)) % LimbBase])

WordNot(a) == Limbs([k \in 1 .. Len(a) |-> LimbBase - 1 - a[k]])

wrapping_add(a, b) == AddWithCarry(a, b, 0)

wrapping_sub(a, b) == AddWithCarry(a, WordNot(b), 1)

\* isize::overflowing_add: the wrapped sum and whether the signed sum left
\* the range of isize.
overflowing_add(a, b) ==
    LET s == wrapping_add(a, b)
    IN  <<s, IsNeg(a) = IsNeg(b) /\ IsNeg(s) # IsNeg(a)>>

RECURSIVE ULtFrom(_, _, _)
ULtFrom(a, b, k) ==
    IF k = 0 THEN FALSE
    ELSE IF a[k] # b[k] THEN a[k] < b[k]
    ELSE ULtFrom(a, b, k - 1)

\* usize `<`
usize_lt(a, b) == ULtFrom(a, b, Len(a))

\* `a + b` and `a - b` on usize leave the range of usize.
usize_add_overflows(a, b) == CarryIn(a, b, 0, Len(a) + 1) = 1

usize_sub_overflows(a, b) == ULtFrom(a, b, Len(a))

\* isize `<`
isize_lt(a, b) == IF IsNeg(a) # IsNeg(b) THEN IsNeg(a) ELSE ULtFrom(a, b, Len(a))

\* usize `>>` (logical) by s < LimbBits
usize_shr(x, s) ==
    Limbs([k \in 1 .. Len(x) |->
        (x[k] \div 2 ^ s)
        + (IF k < Len(x) THEN x[k + 1] % 2 ^ s ELSE 0) * (LimbBase \div 2 ^ s)])

\* isize `>>` (arithmetic) by s < LimbBits
isize_shr(x, s) ==
    Limbs([k \in 1 .. Len(x) |->
        (x[k] \div 2 ^ s)
        + (IF k < Len(x) THEN x[k + 1] % 2 ^ s
           ELSE IF IsNeg(x) THEN 2 ^ s - 1 ELSE 0) * (LimbBase \div 2 ^ s)])

\* (lo .. hi).contains(&x) on isize
isize_range_contains(lo, hi, x) == ~isize_lt(x, lo) /\ isize_lt(x, hi)

ISIZE_MAX ==
    Limbs([k \in 1 .. NLimbs |-> IF k = NLimbs THEN LimbBase \div 2 - 1 ELSE LimbBase - 1])

ISIZE_MIN == Limbs([k \in 1 .. NLimbs |-> IF k = NLimbs THEN LimbBase \div 2 ELSE 0])

USIZE_MAX == Limbs([k \in 1 .. NLimbs |-> LimbBase - 1])

\* The isize whose value is the small integer v, -LimbBase < v < LimbBase.
IsizeOfInt(v) ==
    IF v >= 0 THEN WordOfNat(v, NLimbs)
    ELSE Limbs([k \in 1 .. NLimbs |-> IF k = 1 THEN LimbBase + v ELSE LimbBase - 1])

(***************************************************************************)
(* Register values, as the set of the positions of their set bits          *)
(* (position 0 is the least significant bit).                              *)
(***************************************************************************)
Positions(R) == 0 .. BITS(R) - 1

\* R::ZERO, R::ONE, R::ALL
R_ZERO(R) == {}

R_ONE(R) == {0}

R_ALL(R) == Positions(R)

\* `x << s` on a register: bits shifted past the top are lost
R_shl(R, x, s) == {p + s : p \in x} \cap Positions(R)

R_bitor(x, y) == x \cup y

R_bitand(x, y) == x \cap y

R_not(R, x) == Positions(R) \ x

\* R::count_ones: the number of set bits
count_ones(x) == Cardinality(x)

(***************************************************************************)
(* Outcomes.                                                               *)
(***************************************************************************)
\* A failed debug_assert! (debug builds panic).
DebugPanic == [panic |-> "debug_assert"]

None == [tag |-> "None"]

Some(v) == [tag |-> "Some", val |-> v]

Ok(v) == [tag |-> "Ok", val |-> v]

Err(e) == [tag |-> "Err", val |-> e]

(***************************************************************************)
(* BitIdxErr                                                               *)
(***************************************************************************)
\* #[derive(Default)] on BitIdxErr: err is u8::default()
BitIdxErr_default(R) == [err |-> 0]

BitIdxErr_new(R, value) ==
    IF value >= BITS(R) THEN [err |-> value] ELSE DebugPanic

(***************************************************************************)
(* BitIdx                                                                  *)
(***************************************************************************)
BitIdx_new_unchecked(R, value) ==
    IF value < BITS(R) THEN [idx |-> value] ELSE DebugPanic

\* BitIdx::new with the range check off by one: BITS is let through.
BitIdx_new_accepts_BITS(R, value) ==
    IF value > BITS(R) THEN Err(BitIdxErr_new(R, value))
    ELSE Ok(BitIdx_new_unchecked(R, value))

BitIdx_new(R, value) ==
    IF value >= BITS(R) THEN Err(BitIdxErr_new(R, value))
    ELSE Ok(BitIdx_new_unchecked(R, value))

\* BitIdx::next with the carry taken from the last index, not from BITS.
BitIdx_next_carry_at_MASK(R, self) ==
    LET next == self.idx + 1
    IN  <<BitIdx_new_unchecked(R, u8_bitand(next, MASK(R))), next = MASK(R)>>

\* BitIdx::next without the mask on the incremented index.
BitIdx_next_unmasked(R, self) ==
    LET next == self.idx + 1
    IN  <<BitIdx_new_unchecked(R, next), next = BITS(R)>>

BitIdx_next(R, self) ==
    LET next == self.idx + 1
    IN  <<BitIdx_new_unchecked(R, u8_bitand(next, MASK(R))), next = BITS(R)>>

\* The arithmetic of BitIdx::next overflows: `self.idx + 1`.
BitIdx_next_overflows(R, self) == u8_add_overflows(self.idx, 1)

\* BitIdx::prev with the borrow taken after the subtraction.
BitIdx_prev_borrow_after(R, self) ==
    LET prev == u8_wrapping_sub(self.idx, 1)
    IN  <<BitIdx_new_unchecked(R, u8_bitand(prev, MASK(R))), prev = 0>>

BitIdx_prev(R, self) ==
    LET prev == u8_wrapping_sub(self.idx, 1)
    IN  <<BitIdx_new_unchecked(R, u8_bitand(prev, MASK(R))), self.idx = 0>>

\* The destination index masked with INDX in place of MASK.
BitIdx_offset_index_INDX(R, far) ==
    BitIdx_new_unchecked(R, u8_bitand(word_as_u8(far), INDX(R)))

BitIdx_offset_index(R, far) ==
    BitIdx_new_unchecked(R, u8_bitand(word_as_u8(far), MASK(R)))

\* BitIdx::offset shifting the overflowed sum as a signed number.
BitIdx_offset_sign_extending(R, self, by) ==
    LET val == self.idx
        sum == overflowing_add(by, word_from_u8(val))
        far == sum[1]
        ovf == sum[2]
    IN  IF ~ovf
        THEN IF isize_range_contains(word_from_u8(0), word_from_u8(BITS(R)), far)
             THEN <<word_from_u8(0), BitIdx_new_unchecked(R, word_as_u8(far))>>
             ELSE <<isize_shr(far, INDX(R)), BitIdx_offset_index(R, far)>>
        ELSE <<isize_shr(far, INDX(R)), BitIdx_offset_index(R, far)>>

\* BitIdx::offset shifting a sum that did not overflow as an unsigned
\* number.
BitIdx_offset_logical_shift(R, self, by) ==
    LET val == self.idx
        sum == overflowing_add(by, word_from_u8(val))
        far == sum[1]
        ovf == sum[2]
    IN  IF ~ovf
        THEN IF isize_range_contains(word_from_u8(0), word_from_u8(BITS(R)), far)
             THEN <<word_from_u8(0), BitIdx_new_unchecked(R, word_as_u8(far))>>
             ELSE <<usize_shr(far, INDX(R)), BitIdx_offset_index(R, far)>>
        ELSE <<usize_shr(far, INDX(R)), BitIdx_offset_index(R, far)>>

\* BitIdx::offset taking a sum of exactly BITS to be in the origin register.
BitIdx_offset_origin_inclusive(R, self, by) ==
    LET val == self.idx
        sum == overflowing_add(by, word_from_u8(val))
        far == sum[1]
        ovf == sum[2]
    IN  IF ~ovf
        THEN IF /\ ~isize_lt(far, word_from_u8(0))
                /\ ~isize_lt(word_from_u8(BITS(R)), far)
             THEN <<word_from_u8(0), BitIdx_new_unchecked(R, word_as_u8(far))>>
             ELSE <<isize_shr(far, INDX(R)), BitIdx_offset_index(R, far)>>
        ELSE <<usize_shr(far, INDX(R)), BitIdx_offset_index(R, far)>>

BitIdx_offset(R, self, by) ==
    LET val == self.idx
        sum == overflowing_add(by, word_from_u8(val))
        far == sum[1]
        ovf == sum[2]
    IN  IF ~ovf
        THEN IF isize_range_contains(word_from_u8(0), word_from_u8(BITS(R)), far)
             THEN <<word_from_u8(0), BitIdx_new_unchecked(R, word_as_u8(far))>>
             ELSE <<isize_shr(far, INDX(R)), BitIdx_offset_index(R, far)>>
        ELSE <<usize_shr(far, INDX(R)), BitIdx_offset_index(R, far)>>

(***************************************************************************)
(* BitTail                                                                 *)
(***************************************************************************)
BitTail_new_unchecked(R, value) ==
    IF value <= BITS(R) THEN [end |-> value] ELSE DebugPanic

\* BitTail::new with the range check of an index: BITS is refused.
BitTail_new_refuses_BITS(R, value) ==
    IF value >= BITS(R) THEN None
    ELSE Some(BitTail_new_unchecked(R, value))

BitTail_new(R, value) ==
    IF value > BITS(R) THEN None
    ELSE Some(BitTail_new_unchecked(R, value))

BitTail_LAST(R) == [end |-> BITS(R)]

BitTail_ZERO == [end |-> 0]

\* The tail element counted even when the span ends on a register edge.
BitTail_span_edges_always_two(is_zero) == 2

\* `edges`: the head element, and the tail element when it is partial.
BitTail_span_edges(is_zero) == 2 - is_zero

\* The tail left at 0 when the span ends on a register edge.
BitTail_span_tail_unmarked(R, is_zero, tail) == tail

\* `(is_zero << R::INDX) | tail`
BitTail_span_tail(R, is_zero, tail) == u8_bitor(u8_shl(is_zero, INDX(R)), tail)

\* BitTail::span without the early return for an empty span.
BitTail_span_no_early_return(R, self, len) ==
    LET val == self.end
        head == u8_bitand(val, MASK(R))
        bits_in_head == word_from_u8(BITS(R) - head)
    IN  IF ~usize_lt(bits_in_head, len)
        THEN <<word_from_u8(1), BitTail_new_unchecked(R, head + word_as_u8(len))>>
        ELSE
        LET bits_after_head == wrapping_sub(len, bits_in_head)
            elts == usize_shr(bits_after_head, INDX(R))
            tail == u8_bitand(word_as_u8(bits_after_head), MASK(R))
            is_zero == IF tail = 0 THEN 1 ELSE 0
            edges == word_from_u8(BitTail_span_edges(is_zero))
        IN  <<wrapping_add(elts, edges),
              BitTail_new_unchecked(R, BitTail_span_tail(R, is_zero, tail))>>

\* BitTail::span with the tail of a span that ends in the head register
\* masked like an index.
BitTail_span_head_tail_masked(R, self, len) ==
    IF len = word_from_u8(0) THEN <<word_from_u8(0), self>>
    ELSE
    LET val == self.end
        head == u8_bitand(val, MASK(R))
        bits_in_head == word_from_u8(BITS(R) - head)
    IN  IF ~usize_lt(bits_in_head, len)
        THEN <<word_from_u8(1),
               BitTail_new_unchecked(R, u8_bitand(head + word_as_u8(len), MASK(R)))>>
        ELSE
        LET bits_after_head == wrapping_sub(len, bits_in_head)
            elts == usize_shr(bits_after_head, INDX(R))
            tail == u8_bitand(word_as_u8(bits_after_head), MASK(R))
            is_zero == IF tail = 0 THEN 1 ELSE 0
            edges == word_from_u8(BitTail_span_edges(is_zero))
        IN  <<wrapping_add(elts, edges),
              BitTail_new_unchecked(R, BitTail_span_tail(R, is_zero, tail))>>

\* BitTail::span taking the tail itself for the head, unmasked.
BitTail_span_head_unmasked(R, self, len) ==
    IF len = word_from_u8(0) THEN <<word_from_u8(0), self>>
    ELSE
    LET val == self.end
        head == val
        bits_in_head == word_from_u8(BITS(R) - head)
    IN  IF ~usize_lt(bits_in_head, len)
        THEN <<word_from_u8(1), BitTail_new_unchecked(R, head + word_as_u8(len))>>
        ELSE
        LET bits_after_head == wrapping_sub(len, bits_in_head)
            elts == usize_shr(bits_after_head, INDX(R))
            tail == u8_bitand(word_as_u8(bits_after_head), MASK(R))
            is_zero == IF tail = 0 THEN 1 ELSE 0
            edges == word_from_u8(BitTail_span_edges(is_zero))
        IN  <<wrapping_add(elts, edges),
              BitTail_new_unchecked(R, BitTail_span_tail(R, is_zero, tail))>>

BitTail_span(R, self, len) ==
    IF len = word_from_u8(0) THEN <<word_from_u8(0), self>>
    ELSE
    LET val == self.end
        head == u8_bitand(val, MASK(R))
        bits_in_head == word_from_u8(BITS(R) - head)
    IN  IF ~usize_lt(bits_in_head, len)
        THEN <<word_from_u8(1), BitTail_new_unchecked(R, head + word_as_u8(len))>>
        ELSE
        LET bits_after_head == wrapping_sub(len, bits_in_head)
            elts == usize_shr(bits_after_head, INDX(R))
            tail == u8_bitand(word_as_u8(bits_after_head), MASK(R))
            is_zero == IF tail = 0 THEN 1 ELSE 0
            edges == word_from_u8(BitTail_span_edges(is_zero))
        IN  <<wrapping_add(elts, edges),
              BitTail_new_unchecked(R, BitTail_span_tail(R, is_zero, tail))>>

\* The arithmetic of BitTail::span overflows: `R::BITS - head`,
\* `head + len as u8`, `len - bits_in_head`, `2 - is_zero as usize`,
\* `is_zero << R::INDX` (the shift distance), `elts + edges`.
BitTail_span_overflows(R, self, len) ==
    IF len = word_from_u8(0) THEN FALSE
    ELSE
    LET val == self.end
        head == u8_bitand(val, MASK(R))
    IN  \/ u8_sub_overflows(BITS(R), head)
        \/ LET bits_in_head == word_from_u8(BITS(R) - head)
           IN  IF ~usize_lt(bits_in_head, len)
               THEN u8_add_overflows(head, word_as_u8(len))
               ELSE
               LET bits_after_head == wrapping_sub(len, bits_in_head)
                   elts == usize_shr(bits_after_head, INDX(R))
                   tail == u8_bitand(word_as_u8(bits_after_head), MASK(R))
                   is_zero == IF tail = 0 THEN 1 ELSE 0
                   edges == word_from_u8(BitTail_span_edges(is_zero))
               IN  \/ usize_sub_overflows(len, bits_in_head)
                   \/ usize_sub_overflows(word_from_u8(2), word_from_u8(is_zero))
                   \/ INDX(R) >= 8
                   \/ usize_add_overflows(elts, edges)

\* BitIdx::span: the span of the tail at the same value
BitIdx_span(R, self, len) == BitTail_span(R, BitTail_new_unchecked(R, self.idx), len)

\* A caller laying one region after another: the span of a bits from self,
\* the span of b bits from where that one ends, and the span of a + b bits
\* from self.
BitTail_span_then_span(R, self, a, b) ==
    LET first == BitTail_span(R, self, a)
    IN  [first |-> first,
         second |-> BitTail_span(R, first[2], b),
         whole |-> BitTail_span(R, self, wrapping_add(a, b))]

(***************************************************************************)
(* Iterators.  Every iterator of the module is a range of u8 mapped        *)
(* through closures: its state is the range, an item is the closures       *)
(* applied to the value the range yields.                                  *)
(***************************************************************************)
\* `from .. upto` over u8
Range(from, upto) == [start |-> from, end |-> upto]

\* Range::next: the value yielded, if any, and the range left.
Range_next(r) ==
    IF r.start < r.end
    THEN <<Some(r.start), [r EXCEPT !.start = r.start + 1]>>
    ELSE <<None, r>>

\* DoubleEndedIterator::next_back
Range_next_back(r) ==
    IF r.start < r.end
    THEN <<Some(r.end - 1), [r EXCEPT !.end = r.end - 1]>>
    ELSE <<None, r>>

\* ExactSizeIterator::len
Range_len(r) == IF r.start < r.end THEN r.end - r.start ELSE 0

\* `from ..= last` over u8
RangeInclusive(from, last) == [start |-> from, end |-> last, exhausted |-> FALSE]

RangeInclusive_is_empty(r) == r.exhausted \/ ~(r.start <= r.end)

RangeInclusive_next(r) ==
    IF RangeInclusive_is_empty(r) THEN <<None, r>>
    ELSE IF r.start < r.end
    THEN <<Some(r.start), [r EXCEPT !.start = r.start + 1]>>
    ELSE <<Some(r.start), [r EXCEPT !.exhausted = TRUE]>>

RangeInclusive_next_back(r) ==
    IF RangeInclusive_is_empty(r) THEN <<None, r>>
    ELSE IF r.start < r.end
    THEN <<Some(r.end), [r EXCEPT !.end = r.end - 1]>>
    ELSE <<Some(r.end), [r EXCEPT !.exhausted = TRUE]>>

RangeInclusive_len(r) ==
    IF RangeInclusive_is_empty(r) THEN 0 ELSE r.end - r.start + 1

\* The three calls on whichever of the two ranges an iterator is built on.
Iter_next(it) ==
    IF "exhausted" \in DOMAIN it THEN RangeInclusive_next(it) ELSE Range_next(it)

Iter_next_back(it) ==
    IF "exhausted" \in DOMAIN it
    THEN RangeInclusive_next_back(it)
    ELSE Range_next_back(it)

Iter_len(it) ==
    IF "exhausted" \in DOMAIN it THEN RangeInclusive_len(it) ELSE Range_len(it)

\* BitIdx::range yielding upto as well.
BitIdx_range_through_upto(R, self, upto) ==
    LET from == self.idx
    IN  IF from <= upto.end THEN Range(from, upto.end + 1) ELSE DebugPanic

\* BitIdx::range: the range, and the closure mapped over it
BitIdx_range(R, self, upto) ==
    LET from == self.idx
    IN  IF from <= upto.end THEN Range(from, upto.end) ELSE DebugPanic

BitIdx_range_item(R, val) == BitIdx_new_unchecked(R, val)

\* BitTail::range_from: the inclusive range, and the closure mapped over it
BitTail_range_from(R, from) == RangeInclusive(from.idx, BitTail_LAST(R).end)

BitTail_range_from_item(R, tail) == BitTail_new_unchecked(R, tail)

(***************************************************************************)
(* BitPos, BitSel, BitMask                                                 *)
(***************************************************************************)
\* BitPos::new_unchecked with its assertion off by one: MASK is refused.
BitPos_new_unchecked_below_MASK(R, value) ==
    IF value < MASK(R) THEN [pos |-> value] ELSE DebugPanic

BitPos_new_unchecked(R, value) ==
    IF value < BITS(R) THEN [pos |-> value] ELSE DebugPanic

BitSel_new_unchecked(R, value) ==
    IF count_ones(value) = 1 THEN [sel |-> value] ELSE DebugPanic

\* BitSel::new refusing only the empty value.
BitSel_new_nonzero(R, value) ==
    IF count_ones(value) = 0 THEN None
    ELSE Some(BitSel_new_unchecked(R, value))

BitSel_new(R, value) ==
    IF count_ones(value) # 1 THEN None
    ELSE Some(BitSel_new_unchecked(R, value))

\* #[derive(Default)] on BitSel: sel is R::default(), no bit set
BitSel_default(R) == [sel |-> R_ZERO(R)]

\* impl TryFrom<u8> for BitIdx
BitIdx_try_from(R, value) == BitIdx_new(R, value)

BitPos_select(R, self) ==
    BitSel_new_unchecked(R, R_shl(R, R_ONE(R), self.pos))

\* The arithmetic of BitPos::select overflows: the shift distance of
\* `R::ONE << self.pos` reaches the width of R.
BitPos_select_overflows(R, self) == self.pos >= BITS(R)

BitMask_new(value) == [mask |-> value]

BitMask_ALL(R) == [mask |-> R_ALL(R)]

BitMask_ZERO(R) == [mask |-> R_ZERO(R)]

BitSel_mask(self) == BitMask_new(self.sel)

BitMask_test(R, self, sel) == R_bitand(self.mask, sel.sel) # R_ZERO(R)

\* BitMask::insert storing the selector in place of the mask.
BitMask_insert_replacing(self, sel) == [mask |-> sel.sel]

\* BitMask::insert: self after `self.mask |= sel.sel`
BitMask_insert(self, sel) == [mask |-> R_bitor(self.mask, sel.sel)]

BitMask_combine(self, sel) == [mask |-> R_bitor(self.mask, sel.sel)]

BitMask_bitor(self, rhs) == [mask |-> R_bitor(self.mask, rhs)]

BitMask_not(R, self) == [mask |-> R_not(R, self.mask)]

\* BitIdx::range_all stopping before the last index.
BitIdx_range_all_to_MASK(R) == Range(0, MASK(R))

\* BitIdx::range_all: the range, and the closure mapped over it
BitIdx_range_all(R) == Range(0, BITS(R))

BitIdx_range_all_item(R, val) == BitIdx_new_unchecked(R, val)

\* BitPos::range_all: BitIdx::range_all() mapped through one more closure
BitPos_range_all(R) == BitIdx_range_all(R)

BitPos_range_all_item(R, val) ==
    BitPos_new_unchecked(R, BitIdx_range_all_item(R, val).idx)

\* BitSel::range_all leaving out the selector of position 0.
BitSel_range_all_from_ONE(R) == Range(1, BITS(R))

\* BitSel::range_all: BitPos::range_all().map(BitPos::select)
BitSel_range_all(R) == BitPos_range_all(R)

BitSel_range_all_item(R, val) == BitPos_select(R, BitPos_range_all_item(R, val))

\* The item an iterator of the module makes of the value its range yields.
Iter_item(o, R, val) ==
    CASE o = "BitIdx::range" -> BitIdx_range_item(R, val)
      [] o = "BitIdx::range_all" -> BitIdx_range_all_item(R, val)
      [] o = "BitTail::range_from" -> BitTail_range_from_item(R, val)
      [] o = "BitSel::range_all" -> BitSel_range_all_item(R, val)

\* One step of iter.fold(Self::ZERO, Self::combine) in
\* impl Sum<BitSel<R>> for BitMask<R>
BitMask_sum_step(acc, sel) == BitMask_combine(acc, sel)

\* One step of tests::fold_masks:
\* .map(BitSel::mask).fold(BitMask::ZERO, |accum, mask| accum | mask.value())
tests_fold_masks_step(acc, sel) == BitMask_bitor(acc, BitSel_mask(sel).mask)

(***************************************************************************)
(* The two orderings of crate::order.                                      *)
(***************************************************************************)
Orders == {"Lsb0", "Msb0"}

Lsb0_at(R, index) == BitPos_new_unchecked(R, index.idx)

\* The high-edge-first ordering counting from the low edge.
Msb0_at_low_edge_first(R, index) == BitPos_new_unchecked(R, index.idx)

Msb0_at(R, index) == BitPos_new_unchecked(R, MASK(R) - index.idx)

BitOrder_at(O, R, index) ==
    CASE O = "Lsb0" -> Lsb0_at(R, index)
      [] O = "Msb0" -> Msb0_at(R, index)

BitIdx_position(O, R, self) == BitOrder_at(O, R, self)

\* BitOrder::select taking the index itself for the position.
BitOrder_select_of_index(O, R, index) ==
    BitSel_new_unchecked(R, R_shl(R, R_ONE(R), index.idx))

\* BitOrder::select, as both orderings have it: 1 << at(index)
BitOrder_select(O, R, index) == BitPos_select(R, BitOrder_at(O, R, index))

BitIdx_select(O, R, self) == BitOrder_select(O, R, self)

BitIdx_mask(O, R, self) == BitSel_mask(BitIdx_select(O, R, self))

\* The body of the loop of tests::index_fns, for the index n of register R.
tests_index_fns(R, n) ==
    LET idx == BitIdx_new(R, n).val
    IN  [idx |-> idx,
         position_Lsb0 |-> BitIdx_position("Lsb0", R, idx),
         position_Msb0 |-> BitIdx_position("Msb0", R, idx),
         mask_Lsb0 |-> BitIdx_mask("Lsb0", R, idx),
         mask_Msb0 |-> BitIdx_mask("Msb0", R, idx)]

(***************************************************************************)
(* The inputs.                                                             *)
(***************************************************************************)
\* Signed distances -MaxDelta .. MaxDelta are all tried.
MaxDelta == 66

\* Lengths 0 .. MaxLen are all tried.
MaxLen == 130

\* Words within MaxEdge of the ends of the isize and usize ranges are tried.
MaxEdge == 2

\* Every valid index of register R.
ValidIdx(R) == {[idx |-> i] : i \in 0 .. BITS(R) - 1}

\* Every valid position of register R.
ValidPos(R) == {[pos |-> p] : p \in 0 .. BITS(R) - 1}

\* Every valid selector of register R.
ValidSel(R) == {[sel |-> {p}] : p \in Positions(R)}

\* Every valid tail of register R.
ValidTail(R) == {[end |-> t] : t \in 0 .. BITS(R)}

\* Words away from both ends of the range: one limb set apart from the
\* others, which are all zeros or all ones.
MidWords ==
    {Limbs([k \in 1 .. NLimbs |-> IF k = j THEN v ELSE f]) :
        j \in 1 .. NLimbs,
        v \in {1, LimbBase \div 2 - 1, LimbBase \div 2, LimbBase - 2},
        f \in {0, LimbBase - 1}}

Deltas ==
    {IsizeOfInt(v) : v \in -MaxDelta .. MaxDelta}
    \cup {wrapping_sub(ISIZE_MAX, word_from_u8(k)) : k \in 0 .. MaxEdge}
    \cup {wrapping_add(ISIZE_MIN, word_from_u8(k)) : k \in 0 .. MaxEdge}
    \cup MidWords

Lens ==
    {WordOfNat(v, NLimbs) : v \in 0 .. MaxLen}
    \cup {wrapping_sub(USIZE_MAX, word_from_u8(k)) : k \in 0 .. MaxEdge}
    \cup MidWords

\* Ranges of a register wider than a byte are walked when they are at most
\* MaxRange long, and when they run over the whole register.
MaxRange == 3

\* The ends BitIdx::range is called with: of a byte, every index and tail.
RangeEnds(R) ==
    {e \in ValidIdx(R) \X ValidTail(R) :
        \/ R = "u8"
        \/ e[2].end - e[1].idx \in -1 .. MaxRange
        \/ e = <<[idx |-> 0], BitTail_LAST(R)>>}

\* Two spans are laid end to end with lengths up to two registers and
\* MaxPart bits, and with lengths at the top of usize; in a register wider
\* than 16 bits the second length is within MaxPart of a multiple of BITS.
MaxPart == 1

FirstLens(R) ==
    {WordOfNat(v, NLimbs) : v \in 0 .. 2 * BITS(R) + MaxPart}
    \cup {wrapping_sub(USIZE_MAX, word_from_u8(k)) : k \in 0 .. MaxEdge}

SecondLens(R) ==
    {WordOfNat(v, NLimbs) :
        v \in {w \in 0 .. 2 * BITS(R) + MaxPart :
                 \/ R \in {"u8", "u16"}
                 \/ w % BITS(R) <= MaxPart
                 \/ w % BITS(R) >= BITS(R) - MaxPart}}
    \cup {wrapping_sub(USIZE_MAX, word_from_u8(k)) : k \in 0 .. MaxEdge}

\* Register values: every value of a u8; of a wider register, the values
\* with at most two bits set or at most two bits clear.
RegValues(R) ==
    IF R = "u8" THEN SUBSET Positions(R)
    ELSE LET few == {{a, b} : a, b \in Positions(R)} \cup {{}}
         IN  few \cup {R_not(R, x) : x \in few}

\* Masks: empty, full, one bit set, one bit clear.
MaskValues(R) ==
    LET few == {{a} : a \in Positions(R)} \cup {{}}
    IN  {BitMask_new(x) : x \in few \cup {R_not(R, y) : y \in few}}

\* The masks updated and tested: every mask of a byte; of a wider register
\* those of MaskValues.
Masks(R) ==
    IF R = "u8" THEN {BitMask_new(x) : x \in SUBSET Positions(R)} ELSE MaskValues(R)

(***************************************************************************)
(* Numeric rendering of a bit slice (src/slice/traits.rs, macro fmt!).     *)
(* A slice of bits is the sequence of its bits, 0 or 1, in Cursor order.   *)
(***************************************************************************)
\* The traits the macro is expanded for.
FmtTraits == {"Binary", "Octal", "LowerHex", "UpperHex"}

\* $base: the byte the digit for 10 is counted from.
fmt_base(trait) ==
    CASE trait = "Binary" -> 48 [] trait = "Octal" -> 48
      [] trait = "LowerHex" -> 97 [] trait = "UpperHex" -> 65

\* $pfx: b'b', b'o', b'x'.
fmt_pfx(trait) ==
    CASE trait = "Binary" -> 98 [] trait = "Octal" -> 111
      [] trait = "LowerHex" -> 120 [] trait = "UpperHex" -> 120

\* $blksz: the number of bits to a digit.
fmt_blksz(trait) ==
    CASE trait = "Binary" -> 1 [] trait = "Octal" -> 3
      [] trait = "LowerHex" -> 4 [] trait = "UpperHex" -> 4

\* let start = if fmt.alternate() { 0 } else { 2 };
fmt_start(alternate) == IF alternate THEN 0 ELSE 2

\* let mut w = [b'0'; (64 / $blksz) + 2]; w[1] = $pfx;
\* The byte w[i] of the code is w[i + 1] here.
fmt_w(trait) ==
    [i \in 1 .. (64 \div fmt_blksz(trait)) + 2 |-> IF i = 2 THEN fmt_pfx(trait) ELSE 48]

\* Iterator::next of bits.chunks($blksz).enumerate(), the iterator being the
\* index of the next chunk and the bits not yet handed out: the next $blksz
\* bits, or as many as are left.
fmt_chunks_next(it, blksz) ==
    IF it.rest = <<>>
    THEN <<None, it>>
    ELSE LET n == IF Len(it.rest) < blksz THEN Len(it.rest) ELSE blksz
         IN  <<Some(<<it.idx, SubSeq(it.rest, 1, n)>>),
               [idx |-> it.idx + 1, rest |-> SubSeq(it.rest, n + 1, Len(it.rest))]>>

\* for bit in chunk { val <<= 1; val |= *bit as u8; }
RECURSIVE fmt_val(_, _)
fmt_val(chunk, val) ==
    IF chunk = <<>>
    THEN val
    ELSE fmt_val(Tail(chunk), u8_bitor(u8_shl(val, 1), Head(chunk)))

\* match val { .. }: the digit for a chunk's value.  The last arm is
\* unreachable_unchecked(): undefined behaviour, any byte.
fmt_digit(trait, val) ==
    IF val <= 9 THEN {48 + val}
    ELSE IF val <= 16 THEN {fmt_base(trait) + (val - 10)}
    ELSE U8

\* RenderPart(str): the entry handed to the debug list.
RenderPart(str) == [part |-> str]

\* An index or a range end past the length of w.
IndexPanic == [panic |-> "index out of bounds"]

\* The elements whose bits are rendered: all bits clear, all set, and the
\* two alternating patterns.
FmtElements(R) ==
    {[i \in 1 .. BITS(R) |-> 0], [i \in 1 .. BITS(R) |-> 1]}
    \cup {[i \in 1 .. BITS(R) |-> (i + k) % 2] : k \in 0 .. 1}

\* The head of the live bits within the element.
MaxHead == 1

\* The live bits of an element: bits[h .. t], 0 <= h <= t <= BITS.
FmtParts(R) ==
    {SubSeq(e, ht[1] + 1, ht[2]) :
        e \in FmtElements(R),
        ht \in {x \in (0 .. MaxHead) \X (0 .. BITS(R)) : x[1] <= x[2]}}

(***************************************************************************)
(* std::io::Read for &BitSlice (src/slice/traits.rs).  The byte buffer is  *)
(* written through tgt, its view as a slice of eight bits to the byte.     *)
(***************************************************************************)
\* Err(io::Error::new(io::ErrorKind::UnexpectedEof, "failed to fill whole
\* buffer"))
Err_UnexpectedEof == Err([kind |-> "UnexpectedEof", error |-> "failed to fill whole buffer"])

\* self.split_at(mid) with mid past the end of the slice.
SplitPanic == [panic |-> "split_at: index out of bounds"]

\* self.split_at(mid): the first mid bits and the rest.
BitSlice_split_at(self, mid) ==
    IF mid > Len(self)
    THEN SplitPanic
    ELSE <<SubSeq(self, 1, mid), SubSeq(self, mid + 1, Len(self))>>

\* read: what it returns, the slice it leaves in *self, and the buffer.
Read_read(self, tgt) ==
    LET len == IF Len(tgt) < Len(self) THEN Len(tgt) ELSE Len(self)
        split == BitSlice_split_at(self, len)
    IN  IF split = SplitPanic
        THEN SplitPanic
        ELSE [result |-> Ok(len),
              self |-> split[2],
              tgt |-> split[1] \o SubSeq(tgt, len + 1, Len(tgt))]

\* read_exact
Read_read_exact(self, tgt) ==
    LET len == Len(tgt)
        split == BitSlice_split_at(self, len)
    IN  IF Len(self) > len
        THEN [result |-> Err_UnexpectedEof, self |-> self, tgt |-> tgt]
        ELSE IF split = SplitPanic
        THEN SplitPanic
        ELSE [result |-> Ok(<<>>),
              self |-> split[2],
              tgt |-> SubSeq(split[1], 1, len)]

\* The longest slice read from, in bits, and the longest buffer, in bytes.
MaxReadBits == 18

MaxBufBytes == 2

ReadSlices == {[i \in 1 .. L |-> (i + k) % 2] : L \in 0 .. MaxReadBits, k \in 0 .. 1}

\* BitSlice::<C, u8>::from_slice_mut(buf) for a zeroed buffer of B bytes.
ReadTargets == {[i \in 1 .. 8 * B |-> 0] : B \in 0 .. MaxBufBytes}

(***************************************************************************)
(* The calls.                                                              *)
(***************************************************************************)
Idle == op = "idle"

\* What ret holds while a fold is running.
Pending == [pending |-> TRUE]

\* What a caller has pulled from the iterator in iter: the items taken from
\* the front, and those taken from the back, each in the order of the pulls.
NonePulled == [front |-> <<>>, back |-> <<>>]

Folding == op \in {"BitMask::sum", "tests::fold_masks"} /\ ret = Pending

Init ==
    /\ op = "idle"
    /\ reg = "u8"
    /\ args = <<>>
    /\ ret = <<>>
    /\ iter = Range(0, 0)
    /\ accum = BitMask_ZERO("u8")
    /\ pulled = NonePulled

Call_BitIdx_new ==
    /\ Idle
    /\ \E R \in Regs, value \in U8 :
        /\ op' = "BitIdx::new"
        /\ reg' = R
        /\ args' = <<value>>
        /\ ret' = BitIdx_new(R, value)
    /\ UNCHANGED <<iter, accum, pulled>>

Call_BitIdx_next ==
    /\ Idle
    /\ \E R \in Regs :
        \E self \in ValidIdx(R) :
            /\ op' = "BitIdx::next"
            /\ reg' = R
            /\ args' = <<self>>
            /\ ret' = BitIdx_next(R, self)
    /\ UNCHANGED <<iter, accum, pulled>>

Call_BitIdx_prev ==
    /\ Idle
    /\ \E R \in Regs :
        \E self \in ValidIdx(R) :
            /\ op' = "BitIdx::prev"
            /\ reg' = R
            /\ args' = <<self>>
            /\ ret' = BitIdx_prev(R, self)
    /\ UNCHANGED <<iter, accum, pulled>>

Call_BitIdx_offset ==
    /\ Idle
    /\ \E R \in Regs :
        \E self \in ValidIdx(R), by \in Deltas :
            /\ op' = "BitIdx::offset"
            /\ reg' = R
            /\ args' = <<self, by>>
            /\ ret' = BitIdx_offset(R, self, by)
    /\ UNCHANGED <<iter, accum, pulled>>

Call_BitIdx_position ==
    /\ Idle
    /\ \E R \in Regs, O \in Orders :
        \E self \in ValidIdx(R) :
            /\ op' = "BitIdx::position"
            /\ reg' = R
            /\ args' = <<O, self>>
            /\ ret' = BitIdx_position(O, R, self)
    /\ UNCHANGED <<iter, accum, pulled>>

Call_BitIdx_select ==
    /\ Idle
    /\ \E R \in Regs, O \in Orders :
        \E self \in ValidIdx(R) :
            /\ op' = "BitIdx::select"
            /\ reg' = R
            /\ args' = <<O, self>>
            /\ ret' = BitIdx_select(O, R, self)
    /\ UNCHANGED <<iter, accum, pulled>>

Call_BitIdx_mask ==
    /\ Idle
    /\ \E R \in Regs, O \in Orders :
        \E self \in ValidIdx(R) :
            /\ op' = "BitIdx::mask"
            /\ reg' = R
            /\ args' = <<O, self>>
            /\ ret' = BitIdx_mask(O, R, self)
    /\ UNCHANGED <<iter, accum, pulled>>

Call_tests_index_fns ==
    /\ Idle
    /\ \E R \in Regs :
        \E n \in 0 .. BITS(R) - 1 :
            /\ op' = "tests::index_fns"
            /\ reg' = R
            /\ args' = <<n>>
            /\ ret' = tests_index_fns(R, n)
    /\ UNCHANGED <<iter, accum, pulled>>

Call_BitIdx_try_from ==
    /\ Idle
    /\ \E R \in Regs, value \in U8 :
        /\ op' = "BitIdx::try_from"
        /\ reg' = R
        /\ args' = <<value>>
        /\ ret' = BitIdx_try_from(R, value)
    /\ UNCHANGED <<iter, accum, pulled>>

Call_BitIdxErr_default ==
    /\ Idle
    /\ \E R \in Regs :
        /\ op' = "BitIdxErr::default"
        /\ reg' = R
        /\ args' = <<>>
        /\ ret' = BitIdxErr_default(R)
    /\ UNCHANGED <<iter, accum, pulled>>

Call_BitPos_select ==
    /\ Idle
    /\ \E R \in Regs :
        \E self \in ValidPos(R) :
            /\ op' = "BitPos::select"
            /\ reg' = R
            /\ args' = <<self>>
            /\ ret' = BitPos_select(R, self)
    /\ UNCHANGED <<iter, accum, pulled>>

Call_BitSel_default ==
    /\ Idle
    /\ \E R \in Regs :
        /\ op' = "BitSel::default"
        /\ reg' = R
        /\ args' = <<>>
        /\ ret' = BitSel_default(R)
    /\ UNCHANGED <<iter, accum, pulled>>

Call_BitTail_new ==
    /\ Idle
    /\ \E R \in Regs, value \in U8 :
        /\ op' = "BitTail::new"
        /\ reg' = R
        /\ args' = <<value>>
        /\ ret' = BitTail_new(R, value)
    /\ UNCHANGED <<iter, accum, pulled>>

Call_BitTail_span ==
    /\ Idle
    /\ \E R \in Regs :
        \E self \in ValidTail(R), len \in Lens :
            /\ op' = "BitTail::span"
            /\ reg' = R
            /\ args' = <<self, len>>
            /\ ret' = BitTail_span(R, self, len)
    /\ UNCHANGED <<iter, accum, pulled>>

Call_BitIdx_span ==
    /\ Idle
    /\ \E R \in Regs :
        \E self \in ValidIdx(R), len \in FirstLens(R) :
            /\ op' = "BitIdx::span"
            /\ reg' = R
            /\ args' = <<self, len>>
            /\ ret' = BitIdx_span(R, self, len)
    /\ UNCHANGED <<iter, accum, pulled>>

\* Two spans end to end; a + b is a length, it does not overflow usize.
Call_BitTail_span_then_span ==
    /\ Idle
    /\ \E R \in Regs :
        \E self \in ValidTail(R), a \in FirstLens(R), b \in SecondLens(R) :
            /\ ~usize_add_overflows(a, b)
            /\ op' = "BitTail::span; span"
            /\ reg' = R
            /\ args' = <<self, a, b>>
            /\ ret' = BitTail_span_then_span(R, self, a, b)
    /\ UNCHANGED <<iter, accum, pulled>>

Call_BitSel_new ==
    /\ Idle
    /\ \E R \in Regs :
        \E value \in RegValues(R) :
            /\ op' = "BitSel::new"
            /\ reg' = R
            /\ args' = <<value>>
            /\ ret' = BitSel_new(R, value)
    /\ UNCHANGED <<iter, accum, pulled>>

Call_BitMask_not ==
    /\ Idle
    /\ \E R \in Regs :
        \E self \in MaskValues(R) :
            /\ op' = "BitMask::not"
            /\ reg' = R
            /\ args' = <<self>>
            /\ ret' = BitMask_not(R, self)
    /\ UNCHANGED <<iter, accum, pulled>>

Call_BitMask_test ==
    /\ Idle
    /\ \E R \in Regs :
        \E self \in Masks(R), sel \in ValidSel(R) :
            /\ op' = "BitMask::test"
            /\ reg' = R
            /\ args' = <<self, sel>>
            /\ ret' = BitMask_test(R, self, sel)
    /\ UNCHANGED <<iter, accum, pulled>>

\* BitMask::insert returns nothing: ret is the mask it was called on, as
\* the call leaves it.
Call_BitMask_insert ==
    /\ Idle
    /\ \E R \in Regs :
        \E self \in Masks(R), sel \in ValidSel(R) :
            /\ op' = "BitMask::insert"
            /\ reg' = R
            /\ args' = <<self, sel>>
            /\ ret' = BitMask_insert(self, sel)
    /\ UNCHANGED <<iter, accum, pulled>>

Call_BitMask_combine ==
    /\ Idle
    /\ \E R \in Regs :
        \E self \in Masks(R), sel \in ValidSel(R) :
            /\ op' = "BitMask::combine"
            /\ reg' = R
            /\ args' = <<self, sel>>
            /\ ret' = BitMask_combine(self, sel)
    /\ UNCHANGED <<iter, accum, pulled>>

\* BitMask::sum(BitSel::range_all()) is entered: the fold starts from ZERO.
Call_BitMask_sum ==
    /\ Idle
    /\ \E R \in Regs :
        /\ op' = "BitMask::sum"
        /\ reg' = R
        /\ args' = <<BitSel_range_all(R)>>
        /\ iter' = BitSel_range_all(R)
        /\ accum' = BitMask_ZERO(R)
    /\ ret' = Pending
    /\ UNCHANGED pulled

\* The fold of tests::fold_masks is entered.
Call_tests_fold_masks ==
    /\ Idle
    /\ \E R \in Regs :
        /\ op' = "tests::fold_masks"
        /\ reg' = R
        /\ args' = <<>>
        /\ iter' = BitSel_range_all(R)
        /\ accum' = BitMask_ZERO(R)
    /\ ret' = Pending
    /\ UNCHANGED pulled

\* The fold pulls the next selector and combines it into the accumulator.
Fold_step ==
    /\ Folding
    /\ Range_next(iter)[1] # None
    /\ LET sel == BitSel_range_all_item(reg, Range_next(iter)[1].val)
       IN  accum' = IF op = "BitMask::sum"
                    THEN BitMask_sum_step(accum, sel)
                    ELSE tests_fold_masks_step(accum, sel)
    /\ iter' = Range_next(iter)[2]
    /\ UNCHANGED <<op, reg, args, ret, pulled>>

\* The iterator is exhausted: the fold returns the accumulator.
Fold_return ==
    /\ Folding
    /\ Range_next(iter)[1] = None
    /\ ret' = accum
    /\ UNCHANGED <<op, reg, args, iter, accum, pulled>>

\* The calls that return an iterator; Walk_next and Walk_next_back pull from
\* it.
WalkOps == {"BitIdx::range", "BitIdx::range_all", "BitTail::range_from", "BitSel::range_all"}

Walking == op \in WalkOps /\ ret # DebugPanic

Call_BitIdx_range ==
    /\ Idle
    /\ \E R \in Regs :
        \E e \in RangeEnds(R) :
            /\ op' = "BitIdx::range"
            /\ reg' = R
            /\ args' = e
            /\ ret' = BitIdx_range(R, e[1], e[2])
            /\ iter' = IF BitIdx_range(R, e[1], e[2]) = DebugPanic
                       THEN iter
                       ELSE BitIdx_range(R, e[1], e[2])
    /\ pulled' = NonePulled
    /\ UNCHANGED accum

Call_BitIdx_range_all ==
    /\ Idle
    /\ \E R \in Regs :
        /\ op' = "BitIdx::range_all"
        /\ reg' = R
        /\ ret' = BitIdx_range_all(R)
        /\ iter' = BitIdx_range_all(R)
    /\ args' = <<>>
    /\ pulled' = NonePulled
    /\ UNCHANGED accum

Call_BitTail_range_from ==
    /\ Idle
    /\ \E R \in Regs :
        \E from \in ValidIdx(R) :
            /\ op' = "BitTail::range_from"
            /\ reg' = R
            /\ args' = <<from>>
            /\ ret' = BitTail_range_from(R, from)
            /\ iter' = BitTail_range_from(R, from)
    /\ pulled' = NonePulled
    /\ UNCHANGED accum

Call_BitSel_range_all ==
    /\ Idle
    /\ \E R \in Regs :
        /\ op' = "BitSel::range_all"
        /\ reg' = R
        /\ ret' = BitSel_range_all(R)
        /\ iter' = BitSel_range_all(R)
    /\ args' = <<>>
    /\ pulled' = NonePulled
    /\ UNCHANGED accum

\* The caller pulls from the front of the iterator it was given.
Walk_next ==
    /\ Walking
    /\ LET nx == Iter_next(iter)
       IN  /\ iter' = nx[2]
           /\ IF nx[1] = None
              THEN /\ ret' = None
                   /\ UNCHANGED pulled
              ELSE /\ ret' = Some(Iter_item(op, reg, nx[1].val))
                   /\ pulled' = [pulled EXCEPT
                          !.front = Append(@, Iter_item(op, reg, nx[1].val))]
    /\ UNCHANGED <<op, reg, args, accum>>

\* The caller pulls from the back.
Walk_next_back ==
    /\ Walking
    /\ LET nx == Iter_next_back(iter)
       IN  /\ iter' = nx[2]
           /\ IF nx[1] = None
              THEN /\ ret' = None
                   /\ UNCHANGED pulled
              ELSE /\ ret' = Some(Iter_item(op, reg, nx[1].val))
                   /\ pulled' = [pulled EXCEPT
                          !.back = Append(@, Iter_item(op, reg, nx[1].val))]
    /\ UNCHANGED <<op, reg, args, accum>>

\* fmt calls writer on the live bits of one element: bits[h .. t].
Call_fmt_writer ==
    /\ Idle
    /\ \E R \in Regs, trait \in FmtTraits, alternate \in BOOLEAN :
        \E bits \in FmtParts(R) :
            /\ op' = "fmt::writer"
            /\ reg' = R
            /\ args' = <<trait, alternate, bits>>
            /\ iter' = [idx |-> 0, rest |-> bits]
            /\ accum' = [w |-> fmt_w(trait), end |-> 2, val |-> 0]
    /\ ret' = Pending
    /\ UNCHANGED pulled

\* One turn of the loop over the chunks: the value of the chunk, its digit,
\* the store to w[2 + idx], end += 1.
Fmt_chunk ==
    /\ op = "fmt::writer"
    /\ ret = Pending
    /\ fmt_chunks_next(iter, fmt_blksz(args[1]))[1] # None
    /\ LET nx == fmt_chunks_next(iter, fmt_blksz(args[1]))
           idx == nx[1].val[1]
           val == fmt_val(nx[1].val[2], 0)
       IN  \E digit \in fmt_digit(args[1], val) :
               /\ iter' = nx[2]
               /\ IF 2 + idx >= Len(accum.w)
                  THEN /\ ret' = IndexPanic
                       /\ accum' = [accum EXCEPT !.val = val]
                  ELSE /\ ret' = ret
                       /\ accum' = [accum EXCEPT !.w[2 + idx + 1] = digit,
                                                 !.end = @ + 1,
                                                 !.val = val]
    /\ UNCHANGED <<op, reg, args, pulled>>

\* The chunks are exhausted: dbg.entry(.. &w[start .. end] ..).
Fmt_entry ==
    /\ op = "fmt::writer"
    /\ ret = Pending
    /\ fmt_chunks_next(iter, fmt_blksz(args[1]))[1] = None
    /\ ret' = IF accum.end > Len(accum.w) \/ fmt_start(args[2]) > accum.end
              THEN IndexPanic
              ELSE RenderPart(SubSeq(accum.w, fmt_start(args[2]) + 1, accum.end))
    /\ UNCHANGED <<op, reg, args, iter, accum, pulled>>

Call_Read_read ==
    /\ Idle
    /\ \E self \in ReadSlices, tgt \in ReadTargets :
        /\ op' = "Read::read"
        /\ args' = <<self, tgt>>
        /\ ret' = Read_read(self, tgt)
    /\ UNCHANGED <<reg, iter, accum, pulled>>

Call_Read_read_exact ==
    /\ Idle
    /\ \E self \in ReadSlices, tgt \in ReadTargets :
        /\ op' = "Read::read_exact"
        /\ args' = <<self, tgt>>
        /\ ret' = Read_read_exact(self, tgt)
    /\ UNCHANGED <<reg, iter, accum, pulled>>

Next ==
    \/ Call_BitIdx_new
    \/ Call_BitIdx_next
    \/ Call_BitIdx_prev
    \/ Call_BitIdx_offset
    \/ Call_BitIdx_position
    \/ Call_BitIdx_select
    \/ Call_BitIdx_mask
    \/ Call_tests_index_fns
    \/ Call_BitIdx_try_from
    \/ Call_BitIdxErr_default
    \/ Call_BitPos_select
    \/ Call_BitSel_default
    \/ Call_BitTail_new
    \/ Call_BitTail_span
    \/ Call_BitIdx_span
    \/ Call_BitTail_span_then_span
    \/ Call_BitSel_new
    \/ Call_BitMask_not
    \/ Call_BitMask_test
    \/ Call_BitMask_insert
    \/ Call_BitMask_combine
    \/ Call_BitMask_sum
    \/ Call_tests_fold_masks
    \/ Call_BitIdx_range
    \/ Call_BitIdx_range_all
    \/ Call_BitTail_range_from
    \/ Call_BitSel_range_all
    \/ Walk_next
    \/ Walk_next_back
    \/ Fold_step
    \/ Fold_return
    \/ Call_fmt_writer
    \/ Fmt_chunk
    \/ Fmt_entry
    \/ Call_Read_read
    \/ Call_Read_read_exact

Spec == Init /\ [][Next]_vars

(***************************************************************************)
(* Arithmetic for stating the properties: words widened by one limb, so    *)
(* that sums and products of a word and a register width do not wrap.      *)
(***************************************************************************)
\* The unsigned value of x, in one more limb.
Wide(x) == x \o <<0>>

WideOfNat(v) == WordOfNat(v, NLimbs + 1)

\* x * m for a natural number m <= LimbBase, wrapping at the width of x:
\* long multiplication, limb by limb.
RECURSIVE TimesCarry(_, _, _)
TimesCarry(x, m, k) ==
    IF k = 1 THEN 0
    ELSE (x[k - 1] * m + TimesCarry(x, m, k - 1)) \div LimbBase

WordTimes(x, m) ==
    Limbs([k \in 1 .. Len(x) |-> (x[k] * m + TimesCarry(x, m, k)) % LimbBase])

ULe(a, b) == ~usize_lt(b, a)

\* x mod m for a power of two m <= LimbBase
WordMod(x, m) == x[1] % m

\* c = ceil(total / m), for widened c and total: (c - 1) * m < total <= c * m
IsCeilDiv(c, total, m) ==
    /\ ULe(total, WordTimes(c, m))
    /\ \/ c = WideOfNat(0)
       \/ usize_lt(WordTimes(wrapping_sub(c, WideOfNat(1)), m), total)

\* `x >> s` on a register: bits shifted past the bottom are lost
R_shr(R, x, s) == {p - s : p \in x} \cap Positions(R)

\* The signed value of x, in one more limb.
SignedWide(x) == x \o <<IF IsNeg(x) THEN LimbBase - 1 ELSE 0>>

(***************************************************************************)
(* Properties.                                                             *)
(***************************************************************************)

\* C1: offset round trip.  For every register width, every index i < BITS
\* and every signed word d, with (r, j) = BitIdx(i).offset(d):
\* r * BITS + j is congruent to i + d modulo 2^WordBits, and j < BITS.
C1_OffsetRoundTrip ==
    op = "BitIdx::offset" =>
        LET i == args[1].idx
            d == args[2]
            r == ret[1]
            j == ret[2]
        IN  /\ j # DebugPanic
            /\ j.idx < BITS(reg)
            /\ wrapping_add(WordTimes(r, BITS(reg)), word_from_u8(j.idx))
                 = wrapping_add(d, word_from_u8(i))

\* An offset whose signed addition overflowed, from the last index of a
\* 32-bit register.
C1_Witness ==
    /\ op = "BitIdx::offset"
    /\ reg = "u32"
    /\ args[1].idx = 31
    /\ overflowing_add(args[2], word_from_u8(31))[2]
    /\ ret[2] = [idx |-> 30]

\* C2: span round trip.  For every start tail t <= BITS and every length
\* n > 0, with head = t mod BITS and (c, t') = BitTail(t).span(n):
\* t' <= BITS, c = ceil((head + n) / BITS) (the number of registers holding
\* a live bit), and (c - 1) * BITS + t' - head = n.
C2_SpanRoundTrip ==
    (op = "BitTail::span" /\ args[2] # word_from_u8(0)) =>
        LET head == args[1].end % BITS(reg)
            n == Wide(args[2])
            c == Wide(ret[1])
            t2 == ret[2]
        IN  /\ t2 # DebugPanic
            /\ t2.end <= BITS(reg)
            /\ IsCeilDiv(c, wrapping_add(n, WideOfNat(head)), BITS(reg))
            /\ c # WideOfNat(0)
            /\ wrapping_add(WordTimes(wrapping_sub(c, WideOfNat(1)), BITS(reg)),
                            WideOfNat(t2.end))
                 = wrapping_add(n, WideOfNat(head))

\* A span from the middle of a register that runs over more than two
\* registers and ends on a register edge.
C2_Witness ==
    /\ op = "BitTail::span"
    /\ args[1].end \notin {0, BITS(reg)}
    /\ usize_lt(word_from_u8(2), ret[1])
    /\ ret[2] = [end |-> BITS(reg)]

\* C3: a span from BitTail::ZERO of any length len covers ceil(len / BITS)
\* registers, and its tail is len mod BITS, except that it is BITS when
\* len > 0 is a multiple of BITS.
C3_SpanFromZero ==
    (op = "BitTail::span" /\ args[1] = BitTail_ZERO) =>
        LET len == args[2]
            m == WordMod(len, BITS(reg))
        IN  /\ IsCeilDiv(Wide(ret[1]), Wide(len), BITS(reg))
            /\ ret[2] = [end |-> IF len # word_from_u8(0) /\ m = 0 THEN BITS(reg) ELSE m]

\* A span from ZERO whose length is a multiple of BITS beyond the lengths
\* tried one by one.
C3_Witness ==
    /\ op = "BitTail::span"
    /\ args[1] = BitTail_ZERO
    /\ usize_lt(WordOfNat(MaxLen, NLimbs), args[2])
    /\ WordMod(args[2], BITS(reg)) = 0
    /\ ret[2] = [end |-> BITS(reg)]

\* C4: BitIdx::new(v), for every register width and byte v: Ok wrapping v
\* when v < BITS, and Err of a BitIdxErr carrying v when v >= BITS.
C4_IdxNew ==
    op = "BitIdx::new" =>
        LET v == args[1]
        IN  /\ v < BITS(reg) => ret = Ok([idx |-> v])
            /\ v >= BITS(reg) => ret = Err([err |-> v])

\* BITS itself is rejected, MASK was accepted in another call.
C4_Witness ==
    /\ op = "BitIdx::new"
    /\ args[1] = BITS(reg)
    /\ ret = Err([err |-> BITS(reg)])

C6_SelNew ==
    op = "BitSel::new" =>
        LET x == args[1]
            one_hot == \E p \in Positions(reg) : x = {p}
        IN  /\ one_hot => ret = Some([sel |-> x])
            /\ ~one_hot => ret = None

\* A value of the widest register with two bits set is refused.
C6_Witness ==
    /\ op = "BitSel::new"
    /\ reg = "u64"
    /\ Cardinality(args[1]) = 2
    /\ ret = None

\* C7: for both orderings and every register width, position (O::at) on
\* 0 .. BITS is a bijection onto 0 .. BITS: every result is < BITS, distinct
\* indices have distinct positions, and every position is reached.
C7_AtBijection ==
    op = "BitIdx::position" =>
        LET O == args[1]
            self == args[2]
        IN  /\ ret # DebugPanic
            /\ ret.pos \in 0 .. BITS(reg) - 1
            /\ \A other \in ValidIdx(reg) :
                other # self => BitIdx_position(O, reg, other) # ret
            /\ \A p \in 0 .. BITS(reg) - 1 :
                \E i \in ValidIdx(reg) : BitIdx_position(O, reg, i) = [pos |-> p]

\* The high-edge-first position of index 5 of a byte.
C7_Witness ==
    /\ op = "BitIdx::position"
    /\ reg = "u8"
    /\ args = <<"Msb0", [idx |-> 5]>>
    /\ ret = [pos |-> 2]

\* C8: OR-ing every selector of BitSel::range_all() into a mask, starting
\* from BitMask::ZERO, gives BitMask::ALL, all BITS bits set; and the
\* complement of BitMask::ALL is BitMask::ZERO.
C8_FoldAll ==
    /\ (op \in {"BitMask::sum", "tests::fold_masks"} /\ ret # Pending) =>
        /\ ret = BitMask_ALL(reg)
        /\ \A k \in 0 .. BITS(reg) - 1 : k \in ret.mask
    /\ (op = "BitMask::not" /\ args[1] = BitMask_ALL(reg)) =>
        /\ ret = BitMask_ZERO(reg)
        /\ \A k \in 0 .. BITS(reg) - 1 : k \notin ret.mask

\* The sum of all the selectors of a 64-bit register has returned.
C8_Witness ==
    /\ op = "BitMask::sum"
    /\ reg = "u64"
    /\ iter = Range(64, 64)
    /\ ret = BitMask_ALL("u64")

\* C9: BitIdx(i).next() is the index (i + 1) mod BITS and a carry that is
\* true exactly when i + 1 = BITS.
C9_Next ==
    op = "BitIdx::next" =>
        LET i == args[1].idx
        IN  ret = <<[idx |-> (i + 1) % BITS(reg)], i + 1 = BITS(reg)>>

\* The successor of the last index carries into the next register.
C9_Witness ==
    /\ op = "BitIdx::next"
    /\ args[1].idx = MASK(reg)
    /\ ret = <<[idx |-> 0], TRUE>>

\* C10: BitIdx(i).prev() is the index (i - 1) mod BITS (MASK when i = 0) and
\* a borrow that is true exactly when i = 0.
C10_Prev ==
    op = "BitIdx::prev" =>
        LET i == args[1].idx
        IN  ret = <<[idx |-> (i + BITS(reg) - 1) % BITS(reg)], i = 0>>

\* The predecessor of index 0 borrows from the previous register.
C10_Witness ==
    /\ op = "BitIdx::prev"
    /\ args[1].idx = 0
    /\ ret = <<[idx |-> MASK(reg)], TRUE>>

\* C11: ordering-dual correspondence.  For every register width and every
\* index i < BITS, the positions of i under the two orderings satisfy
\* Lsb0.at(i) + Msb0.at(i) + 1 = BITS.
C11_OrderingDual ==
    op = "tests::index_fns" =>
        LET low == ret.position_Lsb0
            high == ret.position_Msb0
        IN  /\ ret.idx = [idx |-> args[1]]
            /\ low # DebugPanic
            /\ high # DebugPanic
            /\ low.pos + high.pos + 1 = BITS(reg)

\* Index 5 of a 16-bit register: position 5 from the low edge, 10 from it
\* when counted from the high edge.
C11_Witness ==
    /\ op = "tests::index_fns"
    /\ reg = "u16"
    /\ args = <<5>>
    /\ ret.position_Lsb0 = [pos |-> 5]
    /\ ret.position_Msb0 = [pos |-> 10]

\* C12: for each ordering O and every index i < BITS, BitIdx(i).select::<O>()
\* and BitIdx(i).mask::<O>() carry the register value 1 << O::at(i):
\* 1 << i under Lsb0 and (1 << (BITS - 1)) >> i under Msb0; the mask carries
\* the value of the selector.
C12_SelectMaskValue ==
    /\ op \in {"BitIdx::select", "BitIdx::mask"} =>
        LET O == args[1]
            i == args[2].idx
            one == R_ONE(reg)
            at == BitIdx_position(O, reg, args[2]).pos
            value == IF op = "BitIdx::select" THEN ret.sel ELSE ret.mask
        IN  /\ ret # DebugPanic
            /\ value = R_shl(reg, one, at)
            /\ O = "Lsb0" => value = R_shl(reg, one, i)
            /\ O = "Msb0" => value = R_shr(reg, R_shl(reg, one, BITS(reg) - 1), i)
            /\ value = {at}
            /\ op = "BitIdx::mask" =>
                  ret = [mask |-> BitIdx_select(O, reg, args[2]).sel]
    /\ op = "tests::index_fns" =>
        /\ ret.mask_Lsb0 = [mask |-> {args[1]}]
        /\ ret.mask_Msb0 = [mask |-> {BITS(reg) - 1 - args[1]}]

\* The high-edge-first selector of index 3 of a byte is 128 >> 3, bit 4.
C12_Witness ==
    /\ op = "BitIdx::select"
    /\ reg = "u8"
    /\ args = <<"Msb0", [idx |-> 3]>>
    /\ ret = [sel |-> {4}]

\* C13: zero-length span.  For every tail t in 0 ..= BITS, BITS included,
\* BitTail(t).span(0) returns the register count 0 and the tail t itself, not
\* normalised to 0.
C13_SpanEmpty ==
    (op = "BitTail::span" /\ args[2] = word_from_u8(0)) =>
        /\ ret[1] = word_from_u8(0)
        /\ ret[2] = args[1]
        /\ ret[2].end \in 0 .. BITS(reg)

\* The empty span from the tail BITS keeps the tail BITS.
C13_Witness ==
    /\ op = "BitTail::span"
    /\ args = <<BitTail_LAST(reg), word_from_u8(0)>>
    /\ ret = <<word_from_u8(0), [end |-> BITS(reg)]>>

\* C14: for every start tail t with 0 < t < BITS, a span of BITS - t bits
\* returns (1, BitTail(BITS)): it ends on the register edge and the tail is
\* BITS, not 0; a span of BITS bits returns (2, BitTail(t)).
C14_SpanEdges ==
    (op = "BitTail::span" /\ args[1].end \in 1 .. BITS(reg) - 1) =>
        LET t == args[1].end
        IN  /\ args[2] = word_from_u8(BITS(reg) - t) =>
                ret = <<word_from_u8(1), [end |-> BITS(reg)]>>
            /\ args[2] = word_from_u8(BITS(reg)) =>
                ret = <<word_from_u8(2), [end |-> t]>>

\* A span of 32 bits from tail 20 of a 32-bit register ends at tail 20 of
\* the next one.
C14_Witness ==
    /\ op = "BitTail::span"
    /\ reg = "u32"
    /\ args = <<[end |-> 20], word_from_u8(32)>>
    /\ ret = <<word_from_u8(2), [end |-> 20]>>

\* C15: offset at the signed maximum.  For every register width,
\* BitIdx(BITS - 1).offset(isize::MAX) overflows the signed addition and
\* returns the register distance (isize::MAX >> INDX) + 1, a positive
\* number, and the index BITS - 2.
C15_OffsetSignedMax ==
    (op = "BitIdx::offset" /\ args = <<[idx |-> BITS(reg) - 1], ISIZE_MAX>>) =>
        /\ overflowing_add(args[2], word_from_u8(args[1].idx))[2]
        /\ ret[1] = wrapping_add(isize_shr(ISIZE_MAX, INDX(reg)), word_from_u8(1))
        /\ ~IsNeg(ret[1])
        /\ ret[1] # word_from_u8(0)
        /\ ret[2] = [idx |-> BITS(reg) - 2]

\* tests::offset: index 31 of a 32-bit register moved by isize::MAX lands on
\* index 30, 2^(WordBits - 1 - 5) registers on.
C15_Witness ==
    /\ op = "BitIdx::offset"
    /\ reg = "u32"
    /\ args = <<[idx |-> 31], ISIZE_MAX>>
    /\ ret[1] = Limbs([k \in 1 .. NLimbs |->
                    IF k = NLimbs THEN 2 ^ (LimbBits - 1 - INDX(reg)) ELSE 0])
    /\ ret[2] = [idx |-> 30]

\* The items pulled so far from the iterator, from either end.
ItemsPulled ==
    {pulled.front[k] : k \in 1 .. Len(pulled.front)}
    \cup {pulled.back[k] : k \in 1 .. Len(pulled.back)}

\* The selectors the current call has handed to its caller.
SelectorsHeld ==
    CASE op = "BitSel::new" -> IF ret = None THEN {} ELSE {ret.val}
      [] op \in {"BitPos::select", "BitIdx::select", "BitSel::default"} -> {ret}
      [] op = "BitSel::range_all" -> ItemsPulled
      [] OTHER -> {}

\* C16: selector invariant.  Every BitSel that safe code obtains from the
\* module (BitSel::new, BitPos::select, BitIdx::select under an ordering,
\* the items of BitSel::range_all, and the derived Default value) has exactly
\* one bit set.
C16_SelectorInvariant ==
    \A s \in SelectorsHeld :
        /\ s # DebugPanic
        /\ \E p \in Positions(reg) : s.sel = {p}

\* The index errors the current call has handed to its caller.
IndexErrorsHeld ==
    CASE op \in {"BitIdx::new", "BitIdx::try_from"} ->
            IF ret.tag = "Err" THEN {ret.val} ELSE {}
      [] op = "BitIdxErr::default" -> {ret}
      [] OTHER -> {}

\* C17: index error invariant.  Every BitIdxErr that safe code obtains from
\* the module (the error of BitIdx::new and of TryFrom<u8>, and the derived
\* Default value) wraps a byte v >= BITS.
C17_IndexErrorInvariant ==
    \A e \in IndexErrorsHeld :
        /\ e # DebugPanic
        /\ e.err >= BITS(reg)

\* C18: totality on valid inputs.  For every register width, valid index,
\* valid tail, signed distance and length: next, prev, offset, span,
\* range_all, range_from, BitPos::select and BitSel::range_all trip no debug
\* assertion of an unchecked constructor and overflow no byte or word
\* arithmetic; every BitIdx they produce is < BITS, every BitTail <= BITS,
\* every BitSel one-hot.
C18_Totality ==
    /\ op = "BitIdx::next" =>
        /\ ~BitIdx_next_overflows(reg, args[1])
        /\ ret[1] \in ValidIdx(reg)
    /\ op = "BitIdx::prev" => ret[1] \in ValidIdx(reg)
    /\ op = "BitIdx::offset" => ret[2] \in ValidIdx(reg)
    /\ op = "BitTail::span" =>
        /\ ~BitTail_span_overflows(reg, args[1], args[2])
        /\ ret[2] \in ValidTail(reg)
    /\ op = "BitPos::select" =>
        /\ ~BitPos_select_overflows(reg, args[1])
        /\ ret \in ValidSel(reg)
    /\ op \in {"BitIdx::range_all", "BitTail::range_from", "BitSel::range_all"} =>
        /\ iter.start \in U8
        /\ iter.end \in U8
        /\ op = "BitIdx::range_all" => ItemsPulled \subseteq ValidIdx(reg)
        /\ op = "BitTail::range_from" => ItemsPulled \subseteq ValidTail(reg)
        /\ op = "BitSel::range_all" =>
            /\ ItemsPulled \subseteq ValidSel(reg)
            /\ \A v \in iter.start .. iter.end - 1 :
                 /\ BitPos_range_all_item(reg, v) \in ValidPos(reg)
                 /\ ~BitPos_select_overflows(reg, BitPos_range_all_item(reg, v))

\* Every tail from 0 to BITS of a 64-bit register has been pulled from
\* range_from, the last of them BITS itself.
C18_Witness ==
    /\ op = "BitTail::range_from"
    /\ reg = "u64"
    /\ args = <<[idx |-> 0]>>
    /\ Len(pulled.front) = BITS(reg) + 1
    /\ pulled.front[BITS(reg) + 1] = [end |-> BITS(reg)]
    /\ ret = None

\* C19: range iteration.  For every index i and tail upto with
\* i <= upto <= BITS, BitIdx(i).range(upto) yields the upto - i indices
\* i, i+1, .., upto-1, each once: ascending from the front, descending from
\* the back; under any interleaving of pulls from the two ends they never
\* yield the same index, len() is the number not yet yielded, and once the
\* iterator is exhausted it keeps yielding nothing.  range_all() is the same
\* for 0 .. BITS.
C19_RangeIteration ==
    (op \in {"BitIdx::range", "BitIdx::range_all"} /\ ret # DebugPanic) =>
        LET from == IF op = "BitIdx::range" THEN args[1].idx ELSE 0
            upto == IF op = "BitIdx::range" THEN args[2].end ELSE BITS(reg)
            nf == Len(pulled.front)
            nb == Len(pulled.back)
        IN  /\ \A k \in 1 .. nf : pulled.front[k] = [idx |-> from + k - 1]
            /\ \A k \in 1 .. nb : pulled.back[k] = [idx |-> upto - k]
            /\ nf + nb <= upto - from
            /\ Iter_len(iter) = (upto - from) - nf - nb
            /\ ret = None => nf + nb = upto - from
            /\ nf + nb = upto - from =>
                /\ Iter_next(iter) = <<None, iter>>
                /\ Iter_next_back(iter) = <<None, iter>>

\* The range 2 .. 7 of a byte walked from both ends until nothing is left.
C19_Witness ==
    /\ op = "BitIdx::range"
    /\ reg = "u8"
    /\ args = <<[idx |-> 2], [end |-> 7]>>
    /\ pulled.front = <<[idx |-> 2], [idx |-> 3]>>
    /\ pulled.back = <<[idx |-> 6], [idx |-> 5], [idx |-> 4]>>
    /\ ret = None

C21_SelRangeAll ==
    op = "BitSel::range_all" =>
        LET nf == Len(pulled.front)
            nb == Len(pulled.back)
            nth(n) == [sel |-> R_shl(reg, R_ONE(reg), n)]
        IN  /\ \A k \in 1 .. nf : pulled.front[k] = nth(k - 1)
            /\ \A k \in 1 .. nb : pulled.back[k] = nth(BITS(reg) - k)
            /\ \A n \in 0 .. BITS(reg) - 1 : nth(n) = [sel |-> {n}]
            /\ Iter_len(iter) = BITS(reg) - nf - nb
            /\ ret = None =>
                /\ nf + nb = BITS(reg)
                /\ ItemsPulled = ValidSel(reg)
                /\ Cardinality(ItemsPulled) = BITS(reg)

\* All 64 selectors of a 64-bit register pulled from the front, the last of
\* them 1 << 63.
C21_Witness ==
    /\ op = "BitSel::range_all"
    /\ reg = "u64"
    /\ Len(pulled.front) = 64
    /\ pulled.front[64] = [sel |-> {63}]
    /\ ret = None

\* C22: a span that starts at BitTail::LAST (value BITS) begins at bit 0 of
\* the next register: for every len > 0, BitTail(BITS).span(len) returns the
\* same register count and tail as BitTail(0).span(len).
C22_SpanFromLast ==
    (op = "BitTail::span" /\ args[1] = BitTail_LAST(reg)
        /\ args[2] # word_from_u8(0)) =>
        ret = BitTail_span(reg, BitTail_ZERO, args[2])

\* 20 bits from the tail 16 of a 16-bit register: two registers, ending at
\* tail 4, as from tail 0.
C22_Witness ==
    /\ op = "BitTail::span"
    /\ reg = "u16"
    /\ args = <<[end |-> 16], word_from_u8(20)>>
    /\ ret = <<word_from_u8(2), [end |-> 4]>>

\* C23: offset is exact floor division.  For every index i < BITS and signed
\* word d, with S = i + d as an integer (no wrapping), BitIdx(i).offset(d)
\* returns (floor(S / BITS), S mod BITS): r * BITS + j = S with 0 <= j < BITS.
\* r = 0 exactly when 0 <= S < BITS, r < 0 exactly when S < 0, and when the
\* signed addition overflows (only for d > 0) r is positive.
C23_OffsetFloorDiv ==
    op = "BitIdx::offset" =>
        LET i == args[1].idx
            d == args[2]
            r == ret[1]
            j == ret[2]
            S == wrapping_add(SignedWide(d), WideOfNat(i))
            ovf == overflowing_add(d, word_from_u8(i))[2]
        IN  /\ j \in ValidIdx(reg)
            /\ wrapping_add(WordTimes(SignedWide(r), BITS(reg)), WideOfNat(j.idx)) = S
            /\ (r = word_from_u8(0)) <=>
                  (~IsNeg(S) /\ usize_lt(S, WideOfNat(BITS(reg))))
            /\ IsNeg(r) <=> IsNeg(S)
            /\ ovf => /\ ~IsNeg(d)
                      /\ d # word_from_u8(0)
                      /\ ~IsNeg(r)
                      /\ r # word_from_u8(0)

\* Index 3 of a byte moved back by 12 bits: S = -9, two registers back, at
\* index 7.
C23_Witness ==
    /\ op = "BitIdx::offset"
    /\ reg = "u8"
    /\ args = <<[idx |-> 3], IsizeOfInt(-12)>>
    /\ ret = <<IsizeOfInt(-2), [idx |-> 7]>>

\* A span that runs past its head register and ends on a register edge:
\* len > BITS - head and len - (BITS - head) is a multiple of BITS.
SpanEndsOnEdge ==
    /\ op = "BitTail::span"
    /\ args[2] # word_from_u8(0)
    /\ LET bits_in_head == word_from_u8(BITS(reg) - (args[1].end % BITS(reg)))
       IN  /\ usize_lt(bits_in_head, args[2])
           /\ WordMod(wrapping_sub(args[2], bits_in_head), BITS(reg)) = 0

\* full_middle: the registers filled after the head register.
SpanFullMiddle ==
    LET bits_in_head == word_from_u8(BITS(reg) - (args[1].end % BITS(reg)))
    IN  usize_shr(wrapping_sub(args[2], bits_in_head), INDX(reg))

\* C24: in BitTail::span, when len exceeds the bits left in the head register
\* and the remainder len - (BITS - head) is a multiple of BITS, with
\* full_middle = remainder >> INDX, the register count is 1 + full_middle
\* (the head register and the full ones; no register is counted for a
\* tail) and the tail is BitTail(BITS).
C24_SpanOnEdge ==
    SpanEndsOnEdge =>
        ret = <<wrapping_add(SpanFullMiddle, word_from_u8(1)), [end |-> BITS(reg)]>>

\* C24 as the specification states it: the register count is
\* 1 + full_middle + 1 and the tail BitTail(BITS).
C24_SpanOnEdge_AsStated ==
    SpanEndsOnEdge =>
        ret = <<wrapping_add(SpanFullMiddle, word_from_u8(2)), [end |-> BITS(reg)]>>

\* 12 bits from tail 4 of a byte: 4 in the head register, 8 filling the
\* next one; two registers, not three.
C24_Witness ==
    /\ op = "BitTail::span"
    /\ reg = "u8"
    /\ args = <<[end |-> 4], word_from_u8(12)>>
    /\ SpanEndsOnEdge
    /\ ret = <<word_from_u8(2), [end |-> 8]>>

\* C25: offset agrees with the single steps.  For every index i < BITS:
\* offset(0) = (0, i); offset(1) = (1 if next() carries, else 0; the index of
\* next()); offset(-1) = (-1 if prev() borrows, else 0; the index of prev()).
C25_OffsetSteps ==
    op = "BitIdx::offset" =>
        LET self == args[1]
            by == args[2]
            next == BitIdx_next(reg, self)
            prev == BitIdx_prev(reg, self)
        IN  /\ by = IsizeOfInt(0) => ret = <<IsizeOfInt(0), self>>
            /\ by = IsizeOfInt(1) =>
                ret = <<IsizeOfInt(IF next[2] THEN 1 ELSE 0), next[1]>>
            /\ by = IsizeOfInt(-1) =>
                ret = <<IsizeOfInt(IF prev[2] THEN -1 ELSE 0), prev[1]>>

\* One bit back from index 0 of a 64-bit register: the last index of the
\* register before.
C25_Witness ==
    /\ op = "BitIdx::offset"
    /\ reg = "u64"
    /\ args = <<[idx |-> 0], IsizeOfInt(-1)>>
    /\ BitIdx_prev(reg, args[1])[2]
    /\ ret = <<IsizeOfInt(-1), [idx |-> 63]>>

\* C26: span is compositional.  For every start tail t <= BITS and lengths
\* a, b whose sum does not overflow usize, with (ca, ta) = BitTail(t).span(a),
\* (cb, tb) = ta.span(b) and (c, t') = BitTail(t).span(a + b): t' = tb;
\* c = ca + cb - 1 when a > 0, b > 0 and ta < BITS (the two regions share a
\* register), and c = ca + cb otherwise.  BitIdx(i).span is BitTail(i).span.
C26_SpanComposes ==
    /\ op = "BitTail::span; span" =>
        LET a == args[2]
            b == args[3]
            ca == ret.first[1]
            ta == ret.first[2]
            cb == ret.second[1]
            tb == ret.second[2]
            c == ret.whole[1]
            sum == wrapping_add(ca, cb)
            share == a # word_from_u8(0) /\ b # word_from_u8(0) /\ ta.end < BITS(reg)
        IN  /\ ta \in ValidTail(reg)
            /\ tb \in ValidTail(reg)
            /\ ret.whole[2] = tb
            /\ ~usize_add_overflows(ca, cb)
            /\ share => c = wrapping_sub(sum, word_from_u8(1))
            /\ ~share => c = sum
    /\ op = "BitIdx::span" =>
        ret = BitTail_span(reg, [end |-> args[1].idx], args[2])

\* 5 bits from tail 4 of a byte end at tail 1 of the next register; 12 more
\* end at tail 5 two registers on: 2 + 2 - 1 = 3 registers for the 17 bits.
C26_Witness ==
    /\ op = "BitTail::span; span"
    /\ reg = "u8"
    /\ args = <<[end |-> 4], word_from_u8(5), word_from_u8(12)>>
    /\ ret.first = <<word_from_u8(2), [end |-> 1]>>
    /\ ret.second = <<word_from_u8(2), [end |-> 5]>>
    /\ ret.whole = <<word_from_u8(3), [end |-> 5]>>

\* C27: numeric rendering never leaves its scratch buffer.  For every base,
\* every element width and every number of live bits 0 ..= width rendered
\* from one element: no store to w[2 + idx] and no slice w[start .. end] is
\* out of w's bounds, end stays within the length of w, (64 / chunk size) + 2,
\* and each chunk's value is at most 15.
C27_FmtInBuffer ==
    op = "fmt::writer" =>
        /\ ret # IndexPanic
        /\ 2 + iter.idx <= Len(accum.w)
        /\ accum.end <= Len(accum.w)
        /\ Len(accum.w) = (64 \div fmt_blksz(args[1])) + 2
        /\ accum.val <= 15

\* C28: read_exact on a slice of L bits into a buffer of B bytes.  When
\* L >= 8 * B it returns Ok, the buffer holds the first 8 * B bits and the
\* slice is left with the remaining L - 8 * B bits; when L < 8 * B it returns
\* the UnexpectedEof error and does not panic.
C28_ReadExact ==
    op = "Read::read_exact" =>
        LET L == Len(args[1])
            N == Len(args[2])
        IN  /\ L >= N =>
                ret = [result |-> Ok(<<>>),
                       self |-> SubSeq(args[1], N + 1, L),
                       tgt |-> SubSeq(args[1], 1, N)]
            /\ L < N =>
                /\ ret # SplitPanic
                /\ ret.result = Err_UnexpectedEof

====
